---- MODULE Spec2Model ----
(***************************************************************************)
(* A model of hunter.py: one run of main() that lists the managed disks of *)
(* a subscription, keeps the unattached ones, prices them and prints a     *)
(* table sorted by estimated cost, together with the pure helpers          *)
(* extract_resource_group, format_money and make_table.                    *)
(*                                                                         *)
(* Representation choices:                                                 *)
(*  - a Python attribute is [k |-> "val", v |-> x] (set to x),             *)
(*    [k |-> "none"] (set to None) or [k |-> "missing"] (the object has no *)
(*    such attribute, which getattr's default covers and a plain           *)
(*    attribute access does not);                                          *)
(*  - a resource id is a sequence of tokens, each either the separator     *)
(*    "/" or a word (a maximal non-empty run of characters other than      *)
(*    '/'); every string has exactly one such tokenisation in which no two *)
(*    words are adjacent;                                                  *)
(*  - money is counted in integer cents and the rate in cents per GB, so   *)
(*    that size_gb * rate is exact; NaN and infinite rates are not         *)
(*    modelled.                                                            *)
(***************************************************************************)
EXTENDS Integers, Sequences, FiniteSets, TLC

VARIABLES
    pc,         \* position of main(): "cred", "client", "list", "iter", "done"
    rate,       \* args.rate, in cents per GB-month
    yielded,    \* the disks client.disks.list() has yielded so far
    zombies,    \* the local list `zombies`
    total,      \* the local `total`
    stdout,     \* what was printed on sys.stdout, in order
    stderr,     \* what was printed on sys.stderr, in order
    ret,        \* <<>> while main() runs, <<code>> once it returned
    exc,        \* str(exc) of the exception the handler caught, "" if none
    listCalls,  \* how many times client.disks.list() was called
    rid,        \* argument of a stand-alone extract_resource_group call
    rg_result   \* <<>> before that call returned, <<result>> after

vars == <<pc, rate, yielded, zombies, total, stdout, stderr, ret, exc,
          listCalls, rid, rg_result>>

(***************************************************************************)
(* Bounds of the model.                                                    *)
(***************************************************************************)
MaxDisks == 3
MaxIdLen == 7

(***************************************************************************)
(* Python values.                                                          *)
(***************************************************************************)
Val(x) == [k |-> "val", v |-> x]
NoneV == [k |-> "none"]
MissingV == [k |-> "missing"]

HasAttr(obj, f) == obj[f].k # "missing"

\* getattr(obj, f, default)
GetAttr(obj, f, default) == IF HasAttr(obj, f) THEN obj[f] ELSE default

\* x or default, for a str (or None) x
OrStr(x, default) == IF x.k = "val" /\ x.v # "" THEN x.v ELSE default

\* x or default, for an int (or None) x
OrInt(x, default) == IF x.k = "val" /\ x.v # 0 THEN x.v ELSE default

\* x or default, for a resource id (or None) x
OrId(x, default) == IF x.k = "val" /\ x.v # <<>> THEN x.v ELSE default

DEFAULT_RATE_PER_GB_MONTH == 150

(***************************************************************************)
(* extract_resource_group                                                  *)
(***************************************************************************)
Sep == "/"

\* str.lower() on the words of the model's vocabulary
Lower(w) ==
    CASE w \in {"resourceGroups", "RESOURCEGROUPS", "ResourceGroups",
                "resourcegroups"} -> "resourcegroups"
      [] w = "RG2" -> "rg2"
      [] w = "Microsoft.Compute" -> "microsoft.compute"
      [] OTHER -> w

RECURSIVE LStrip(_)
LStrip(s) == IF s # <<>> /\ Head(s) = Sep THEN LStrip(Tail(s)) ELSE s

RECURSIVE RStrip(_)
RStrip(s) ==
    IF s # <<>> /\ s[Len(s)] = Sep THEN RStrip(SubSeq(s, 1, Len(s) - 1)) ELSE s

\* resource_id.strip("/")
Strip(s) == RStrip(LStrip(s))

\* s.split("/"): cur is the segment being read, acc the segments read
RECURSIVE SplitFrom(_, _, _)
SplitFrom(s, cur, acc) ==
    IF s = <<>> THEN Append(acc, cur)
    ELSE IF Head(s) = Sep THEN SplitFrom(Tail(s), "", Append(acc, cur))
    ELSE SplitFrom(Tail(s), Head(s), acc)

Split(s) == SplitFrom(s, "", <<>>)

\* the mutated scan: takes the last "resourceGroups" segment with a successor
RECURSIVE ScanPartsLast(_, _)
ScanPartsLast(parts, i) ==
    IF i < 1 THEN "Unknown"
    ELSE IF Lower(parts[i]) = "resourcegroups" /\ i + 1 <= Len(parts)
         THEN parts[i + 1]
         ELSE ScanPartsLast(parts, i - 1)

ScanLast(parts, i) == ScanPartsLast(parts, Len(parts))

\* the mutated scan: returns the successor in lower case
RECURSIVE ScanLowered(_, _)
ScanLowered(parts, i) ==
    IF i > Len(parts) THEN "Unknown"
    ELSE IF Lower(parts[i]) = "resourcegroups" /\ i + 1 <= Len(parts)
         THEN Lower(parts[i + 1])
         ELSE ScanLowered(parts, i + 1)

\* for i, part in enumerate(parts): ... (i is 1-based here)
RECURSIVE ScanParts(_, _)
ScanParts(parts, i) ==
    IF i > Len(parts) THEN "Unknown"
    ELSE IF Lower(parts[i]) = "resourcegroups" /\ i + 1 <= Len(parts)
         THEN parts[i + 1]
         ELSE ScanParts(parts, i + 1)

extract_resource_group(resource_id) ==
    IF resource_id = <<>> THEN "Unknown"
    ELSE ScanParts(Split(Strip(resource_id)), 1)

(***************************************************************************)
(* format_money, str(int) and make_table                                   *)
(***************************************************************************)
Abs(n) == IF n < 0 THEN -n ELSE n

\* the groups of three digits that "," separates
RECURSIVE Groups(_)
Groups(n) == IF n < 1000 THEN <<n>> ELSE Append(Groups(n \div 1000), n % 1000)

\* f"${value:,.2f}" of a value given in cents
format_money(value) ==
    [neg |-> value < 0, dollars |-> Groups(Abs(value) \div 100),
     cents |-> Abs(value) % 100]

\* f"{args.rate:.2f}"
FormatRate(r) == [neg |-> r < 0, whole |-> Abs(r) \div 100, cents |-> Abs(r) % 100]

\* str(size): the decimal digits of a non-negative int
RECURSIVE Str(_)
Str(n) == IF n < 10 THEN <<n>> ELSE Append(Str(n \div 10), n % 10)

Headers == <<"Disk Name", "Size (GB)", "Resource Group", "Est. Monthly Cost">>

\* make_table: the lines of the table; the padding of the cells to the
\* column widths is not modelled
make_table(rows) ==
    LET str_rows == [i \in 1..Len(rows) |->
                        <<rows[i][1], Str(rows[i][2]), rows[i][3],
                          format_money(rows[i][4])>>]
    IN  <<[rule |-> "-"], [cells |-> Headers], [rule |-> "="]>>
        \o [i \in 1..Len(str_rows) |-> [cells |-> str_rows[i]]]
        \o <<[rule |-> "-"]>>

(***************************************************************************)
(* The provider: the disk objects client.disks.list() may yield.           *)
(***************************************************************************)
IdRg1 ==
    <<"/", "subscriptions", "/", "s1", "/", "resourceGroups", "/", "rg1", "/",
      "providers", "/", "Microsoft.Compute", "/", "disks", "/", "d1">>
IdUpper ==
    <<"/", "subscriptions", "/", "s1", "/", "RESOURCEGROUPS", "/", "RG2", "/",
      "disks", "/", "d3">>
IdNoRg == <<"/", "subscriptions", "/", "s1">>
IdTrailing == <<"/", "subscriptions", "/", "s1", "/", "resourceGroups", "/">>

Disk(name, size, state, id) ==
    [name |-> name, disk_size_gb |-> size, disk_state |-> state, id |-> id]

Disks ==
    { Disk(Val("d1"), Val(100), Val("Unattached"), Val(IdRg1)),
      Disk(Val("d2"), Val(50), Val("Attached"), Val(IdRg1)),
      Disk(Val("d3"), Val(200), Val("Unattached"), Val(IdUpper)),
      Disk(Val("d4"), Val(100), Val("Unattached"), Val(IdNoRg)),
      Disk(NoneV, NoneV, Val("Unattached"), NoneV),
      Disk(MissingV, Val(10), Val("Unattached"), Val(IdRg1)),
      Disk(Val("d7"), MissingV, Val("Unattached"), MissingV),
      Disk(Val(""), Val(0), Val("Unattached"), Val(IdTrailing)),
      Disk(Val("d9"), Val(10), Val("unattached"), Val(IdRg1)),
      Disk(Val("d10"), Val(10), NoneV, Val(IdRg1)),
      Disk(MissingV, MissingV, MissingV, MissingV),
      Disk(Val("d12"), Val(10), Val("Reserved"), Val(IdRg1)),
      Disk(Val("d13"), Val(10), Val("ActiveSAS"), Val(IdUpper)) }

\* the values of --rate, in cents per GB-month: type=float accepts any float
Rates == {-DEFAULT_RATE_PER_GB_MONTH, 0, DEFAULT_RATE_PER_GB_MONTH, 200}

\* str(exc) of what the collaborators may raise
CredentialErrors == {"CredentialUnavailableError"}
ClientErrors == {"ValueError: subscription_id"}
ListErrors == {"ClientAuthenticationError", "HttpResponseError"}
AttributeErrorMsg == "'Disk' object has no attribute 'name'"

Tips ==
    "\nTips:\n - Ensure you can authenticate with DefaultAzureCredential:\n   * az login\n   * or use Managed Identity / VS Code Azure extension / environment variables\n - Verify the subscription ID is correct.\n"

NoZombiesText == "No zombies detected. Good job!"

(***************************************************************************)
(* main(): the loop body                                                   *)
(***************************************************************************)
\* the mutated filter: compares the state without regard to case
IsUnattachedAnyCase(disk) ==
    LET disk_state == GetAttr(disk, "disk_state", NoneV)
    IN  disk_state \in {Val("Unattached"), Val("unattached")}

\* not (disk_state != "Unattached")
IsUnattached(disk) ==
    LET disk_state == GetAttr(disk, "disk_state", NoneV)
    IN  disk_state = Val("Unattached")

\* size_gb * float(args.rate)
MonthlyCost(size_gb, r) == size_gb * r

\* the tuple appended to zombies; needs disk.name to exist
Row(disk, r) ==
    LET name == OrStr(disk.name, "Unnamed")
        size_gb == OrInt(GetAttr(disk, "disk_size_gb", Val(0)), 0)
        rg == extract_resource_group(OrId(GetAttr(disk, "id", Val(<<>>)), <<>>))
    IN  <<name, size_gb, rg, MonthlyCost(size_gb, r)>>

(***************************************************************************)
(* main(): zombies.sort(key=lambda x: x[3], reverse=True), a stable sort   *)
(***************************************************************************)
\* the mutated insertion: puts a row before the rows of equal cost
InsertBeforeTies(row, sorted) ==
    LET before == {i \in 1..Len(sorted) : sorted[i][4] > row[4]}
        n == Cardinality(before)
    IN  SubSeq(sorted, 1, n) \o <<row>> \o SubSeq(sorted, n + 1, Len(sorted))

\* the mutated insertion: keeps the order of arrival
InsertAtEnd(row, sorted) == Append(sorted, row)

\* row goes after every row that costs at least as much
Insert(row, sorted) ==
    LET before == {i \in 1..Len(sorted) : sorted[i][4] >= row[4]}
        n == Cardinality(before)
    IN  SubSeq(sorted, 1, n) \o <<row>> \o SubSeq(sorted, n + 1, Len(sorted))

RECURSIVE SortFrom(_, _)
SortFrom(rows, sorted) ==
    IF rows = <<>> THEN sorted ELSE SortFrom(Tail(rows), Insert(Head(rows), sorted))

SortDesc(rows) == SortFrom(rows, <<>>)

\* the mutated sum: leaves the last row out
RECURSIVE SumCostsButLast(_)
SumCostsButLast(rows) ==
    IF Len(rows) <= 1 THEN 0 ELSE Head(rows)[4] + SumCostsButLast(Tail(rows))

\* sum(r[3] for r in zombies)
RECURSIVE SumCosts(_)
SumCosts(rows) == IF rows = <<>> THEN 0 ELSE Head(rows)[4] + SumCosts(Tail(rows))

(***************************************************************************)
(* main(): the except clause                                               *)
(***************************************************************************)
\* the mutated handler: prints what was collected before failing
ExceptPrintsPartial(msg) ==
    /\ stdout' = IF zombies = <<>> THEN stdout
                 ELSE Append(stdout, [table |-> make_table(zombies)])
    /\ stderr' = stderr \o <<[error |-> msg], [text |-> Tips]>>
    /\ exc' = msg
    /\ ret' = <<1>>
    /\ pc' = "done"

\* except Exception as exc: two prints on stderr and return 1
Except(msg) ==
    /\ stdout' = stdout
    /\ stderr' = stderr \o <<[error |-> msg], [text |-> Tips]>>
    /\ exc' = msg
    /\ ret' = <<1>>
    /\ pc' = "done"

(***************************************************************************)
(* main(): the steps                                                       *)
(***************************************************************************)
Init ==
    /\ pc = "cred"
    /\ rate \in Rates
    /\ yielded = <<>>
    /\ zombies = <<>>
    /\ total = 0
    /\ stdout = <<>>
    /\ stderr = <<>>
    /\ ret = <<>>
    /\ exc = ""
    /\ listCalls = 0
    /\ rid = <<>>
    /\ rg_result = <<>>

\* credential = DefaultAzureCredential()
CreateCredential ==
    /\ pc = "cred"
    /\ pc' = "client"
    /\ UNCHANGED <<rate, yielded, zombies, total, stdout, stderr, ret, exc,
                   listCalls, rid, rg_result>>

CredentialRaises ==
    /\ pc = "cred"
    /\ \E msg \in CredentialErrors : Except(msg)
    /\ UNCHANGED <<rate, yielded, zombies, total, listCalls, rid, rg_result>>

\* client = ComputeManagementClient(credential, args.subscription_id)
CreateClient ==
    /\ pc = "client"
    /\ pc' = "list"
    /\ UNCHANGED <<rate, yielded, zombies, total, stdout, stderr, ret, exc,
                   listCalls, rid, rg_result>>

ClientRaises ==
    /\ pc = "client"
    /\ \E msg \in ClientErrors : Except(msg)
    /\ UNCHANGED <<rate, yielded, zombies, total, listCalls, rid, rg_result>>

\* client.disks.list() returns the iterator
CallList ==
    /\ pc = "list"
    /\ listCalls' = listCalls + 1
    /\ pc' = "iter"
    /\ UNCHANGED <<rate, yielded, zombies, total, stdout, stderr, ret, exc,
                   rid, rg_result>>

\* client.disks.list() raises
ListRaises ==
    /\ pc = "list"
    /\ listCalls' = listCalls + 1
    /\ \E msg \in ListErrors : Except(msg)
    /\ UNCHANGED <<rate, yielded, zombies, total, rid, rg_result>>

\* the iterator yields a disk that is not unattached: continue
SkipDisk ==
    /\ pc = "iter"
    /\ Len(yielded) < MaxDisks
    /\ \E disk \in Disks :
          /\ ~IsUnattached(disk)
          /\ yielded' = Append(yielded, disk)
    /\ UNCHANGED <<pc, rate, zombies, total, stdout, stderr, ret, exc,
                   listCalls, rid, rg_result>>

\* the iterator yields an unattached disk: it is appended to zombies
AppendZombie ==
    /\ pc = "iter"
    /\ Len(yielded) < MaxDisks
    /\ \E disk \in Disks :
          /\ IsUnattached(disk)
          /\ HasAttr(disk, "name")
          /\ yielded' = Append(yielded, disk)
          /\ zombies' = Append(zombies, Row(disk, rate))
    /\ UNCHANGED <<pc, rate, total, stdout, stderr, ret, exc, listCalls, rid,
                   rg_result>>

\* the iterator yields an unattached disk without a name attribute:
\* disk.name raises AttributeError, which the except clause catches
NameAccessRaises ==
    /\ pc = "iter"
    /\ Len(yielded) < MaxDisks
    /\ \E disk \in Disks :
          /\ IsUnattached(disk)
          /\ ~HasAttr(disk, "name")
          /\ yielded' = Append(yielded, disk)
    /\ Except(AttributeErrorMsg)
    /\ UNCHANGED <<rate, zombies, total, listCalls, rid, rg_result>>

\* the iterator raises instead of yielding
IterRaises ==
    /\ pc = "iter"
    /\ \E msg \in ListErrors : Except(msg)
    /\ UNCHANGED <<rate, yielded, zombies, total, listCalls, rid, rg_result>>

\* the iterator is exhausted and zombies is empty
ReportNoZombies ==
    /\ pc = "iter"
    /\ zombies = <<>>
    /\ stdout' = Append(stdout, [text |-> NoZombiesText])
    /\ ret' = <<0>>
    /\ pc' = "done"
    /\ UNCHANGED <<rate, yielded, zombies, total, stderr, exc, listCalls, rid,
                   rg_result>>

\* the iterator is exhausted and zombies is not empty: sort, table, total
ReportZombies ==
    /\ pc = "iter"
    /\ zombies # <<>>
    /\ zombies' = SortDesc(zombies)
    /\ total' = SumCosts(zombies')
    /\ stdout' = stdout \o <<[table |-> make_table(zombies')],
                             [total |-> format_money(total'),
                              rate |-> FormatRate(rate)]>>
    /\ ret' = <<0>>
    /\ pc' = "done"
    /\ UNCHANGED <<rate, yielded, stderr, exc, listCalls, rid, rg_result>>

Next ==
    \/ CreateCredential
    \/ CredentialRaises
    \/ CreateClient
    \/ ClientRaises
    \/ CallList
    \/ ListRaises
    \/ SkipDisk
    \/ AppendZombie
    \/ NameAccessRaises
    \/ IterRaises
    \/ ReportNoZombies
    \/ ReportZombies

Spec == Init /\ [][Next]_vars

(***************************************************************************)
(* extract_resource_group called on its own, over all short resource ids   *)
(***************************************************************************)
Words == {"subscriptions", "resourceGroups", "RESOURCEGROUPS", "rg1", "RG2"}
Tokens == Words \cup {Sep}

\* the token sequences that are strings: no two words are adjacent
IsString(s) == \A i \in 1..(Len(s) - 1) : s[i] = Sep \/ s[i + 1] = Sep

ResourceIds ==
    UNION {{s \in [1..n -> Tokens] : IsString(s)} : n \in 0..MaxIdLen}

InitRG ==
    /\ pc = "rg_call"
    /\ rid \in ResourceIds
    /\ rg_result = <<>>
    /\ rate = DEFAULT_RATE_PER_GB_MONTH
    /\ yielded = <<>>
    /\ zombies = <<>>
    /\ total = 0
    /\ stdout = <<>>
    /\ stderr = <<>>
    /\ ret = <<>>
    /\ exc = ""
    /\ listCalls = 0

ExtractCall ==
    /\ pc = "rg_call"
    /\ rg_result' = <<extract_resource_group(rid)>>
    /\ pc' = "rg_done"
    /\ UNCHANGED <<rate, yielded, zombies, total, stdout, stderr, ret, exc,
                   listCalls, rid>>

NextRG == ExtractCall

SpecRG == InitRG /\ [][NextRG]_vars

(***************************************************************************)
(* Vocabulary of the properties                                            *)
(***************************************************************************)
Done == pc = "done"

CollaboratorErrors == CredentialErrors \cup ClientErrors \cup ListErrors

\* a table was printed on stdout
TablePrinted == \E i \in 1..Len(stdout) : "table" \in DOMAIN stdout[i]

\* the state the provider reported is the literal "Unattached"
StateIsUnattached(disk) == disk.disk_state = Val("Unattached")

\* the yielded disks the provider reported as "Unattached", in yield order
UnattachedYielded == SelectSeq(yielded, StateIsUnattached)

\* an attribute that is None or not there at all
Absent(x) == x.k # "val"

Count(seq, x) == Cardinality({i \in 1..Len(seq) : seq[i] = x})

\* the rows of the unattached disks of a listing, in the order of the listing
RowsOf(listing, r) ==
    LET u == SelectSeq(listing, StateIsUnattached)
    IN  [i \in 1..Len(u) |-> Row(u[i], r)]

\* the lines of a printed table that are rows of disks
RowLines(table) == SelectSeq(SubSeq(table, 3, Len(table)),
                             LAMBDA l : "cells" \in DOMAIN l)

IndexPermutations(n) ==
    {f \in [1..n -> 1..n] : \A i, j \in 1..n : f[i] = f[j] => i = j}

(***************************************************************************)
(* C1: a run in which the credential, the client or the listing raised     *)
(* has printed nothing on stdout, has printed the error's message and then *)
(* the tips on stderr, has returned 1, and has called the listing at most  *)
(* once, however many disks had been yielded before.                       *)
(***************************************************************************)
C1_FailureAbortsRun ==
    (Done /\ exc \in CollaboratorErrors) =>
        /\ stdout = <<>>
        /\ stderr = <<[error |-> exc], [text |-> Tips]>>
        /\ ret = <<1>>
        /\ listCalls <= 1

\* the iterator raised after yielding two disks or more, zombies among them
C1_Witness ==
    /\ Done
    /\ exc \in ListErrors
    /\ Len(yielded) >= 2
    /\ zombies # <<>>
    /\ Len(zombies) < Len(yielded)

(***************************************************************************)
(* C2: when the run ends with a report, the rows of the report are exactly *)
(* the yielded disks whose disk_state is the literal "Unattached", one row *)
(* per disk, duplicates kept; with no such disk there is no table.         *)
(***************************************************************************)
C2_RowsAreTheUnattached ==
    (Done /\ ret = <<0>>) =>
        LET expected == RowsOf(yielded, rate)
        IN  /\ Len(zombies) = Len(UnattachedYielded)
            /\ \A i \in 1..Len(expected) :
                  Count(zombies, expected[i]) = Count(expected, expected[i])
            /\ TablePrinted <=> UnattachedYielded # <<>>
            /\ TablePrinted =>
                  Len(RowLines(stdout[1].table)) = Len(UnattachedYielded)

\* a report of two rows for the same disk yielded twice, next to a disk in
\* state "unattached"
C2_Witness ==
    /\ Done
    /\ ret = <<0>>
    /\ Len(yielded) = 3
    /\ \E i, j, k \in 1..3 :
          /\ i # j
          /\ yielded[i] = yielded[j]
          /\ StateIsUnattached(yielded[i])
          /\ yielded[k].disk_state = Val("unattached")
    /\ Len(zombies) = 2

(***************************************************************************)
(* C4: whenever a table is printed, each row costs at least as much as the *)
(* row below it, and the printed table is the table of those rows.         *)
(***************************************************************************)
C4_RowsDescend ==
    TablePrinted =>
        /\ \A i \in 1..(Len(zombies) - 1) : zombies[i][4] >= zombies[i + 1][4]
        /\ stdout[1].table = make_table(zombies)

\* a table whose rows were yielded in strictly ascending order of cost
C4_Witness ==
    /\ TablePrinted
    /\ Len(zombies) = 3
    /\ LET u == RowsOf(yielded, rate)
       IN  /\ Len(u) = 3
           /\ u[1][4] < u[2][4]
           /\ u[2][4] < u[3][4]

(***************************************************************************)
(* C5: the sort is stable: for every cost, the rows of that cost stand in  *)
(* the table in the order in which the provider yielded their disks.       *)
(***************************************************************************)
C5_SortIsStable ==
    TablePrinted =>
        LET u == RowsOf(yielded, rate)
        IN  \A c \in {u[i][4] : i \in 1..Len(u)} :
                SelectSeq(zombies, LAMBDA r : r[4] = c)
                    = SelectSeq(u, LAMBDA r : r[4] = c)

\* a table with two different rows of equal cost under a dearer row that
\* was yielded after them
C5_Witness ==
    /\ TablePrinted
    /\ rate > 0
    /\ LET u == RowsOf(yielded, rate)
       IN  /\ Len(u) = 3
           /\ u[1][4] = u[2][4]
           /\ u[1] # u[2]
           /\ u[3][4] > u[1][4]

(***************************************************************************)
(* C6: whenever a report is printed, the total is the sum over the rows of *)
(* the table of size_gb times the rate of the run, the total line shows    *)
(* that total, and every permutation of the listing gives the same total.  *)
(***************************************************************************)
RECURSIVE SumSizeTimesRate(_, _)
SumSizeTimesRate(rows, r) ==
    IF rows = <<>> THEN 0
    ELSE SumSizeTimesRate(SubSeq(rows, 1, Len(rows) - 1), r)
            + rows[Len(rows)][2] * r

C6_TotalIsSumOfRows ==
    TablePrinted =>
        /\ \A i \in 1..Len(zombies) : zombies[i][4] = zombies[i][2] * rate
        /\ total = SumSizeTimesRate(zombies, rate)
        /\ stdout[2].total = format_money(total)
        /\ \A f \in IndexPermutations(Len(yielded)) :
              LET listing == [i \in 1..Len(yielded) |-> yielded[f[i]]]
              IN  SumCosts(SortDesc(RowsOf(listing, rate))) = total

\* a report of three rows of different costs at a rate above 0
C6_Witness ==
    /\ TablePrinted
    /\ rate > 0
    /\ Len(zombies) = 3
    /\ zombies[1][4] > zombies[2][4]
    /\ zombies[2][4] > zombies[3][4]
    /\ total = zombies[1][4] + zombies[2][4] + zombies[3][4]

(***************************************************************************)
(* C7: a run in which nothing raised and no yielded disk has the state     *)
(* "Unattached" has printed exactly the line "No zombies detected. Good    *)
(* job!" on stdout and nothing on stderr, and has returned 0.              *)
(***************************************************************************)
C7_NoZombiesMessage ==
    (Done /\ exc = "" /\ UnattachedYielded = <<>>) =>
        /\ stdout = <<[text |-> NoZombiesText]>>
        /\ stderr = <<>>
        /\ ret = <<0>>

\* a listing of disks in the states "unattached", None and "Attached"
C7_Witness ==
    /\ Done
    /\ exc = ""
    /\ UnattachedYielded = <<>>
    /\ Len(yielded) = 3
    /\ \E i, j, k \in 1..3 :
          /\ yielded[i].disk_state = Val("unattached")
          /\ yielded[j].disk_state = NoneV
          /\ yielded[k].disk_state = Val("Attached")

(***************************************************************************)
(* C8: in every report, every row has a size_gb of at least 0 and a        *)
(* monthly cost of at least 0, and the total is at least 0, for every rate *)
(* the command line accepts.                                               *)
(***************************************************************************)
C8_NothingNegative ==
    TablePrinted =>
        /\ \A i \in 1..Len(zombies) : zombies[i][2] >= 0 /\ zombies[i][4] >= 0
        /\ total >= 0

(***************************************************************************)
(* C9: a run in which no collaborator raised returns 0, whatever fields of *)
(* the unattached disks are absent, and reports each unattached disk under *)
(* the name "Unnamed" if its name is absent, with size 0 and cost 0 if its *)
(* size is absent, and in resource group "Unknown" if its id is absent.    *)
(***************************************************************************)
C9_AbsentFieldsNeverFail ==
    (Done /\ exc \notin CollaboratorErrors) =>
        /\ ret = <<0>>
        /\ \A i \in 1..Len(UnattachedYielded) :
              LET disk == UnattachedYielded[i]
              IN  \E j \in 1..Len(zombies) :
                    /\ Absent(disk.name) => zombies[j][1] = "Unnamed"
                    /\ ~Absent(disk.name) /\ disk.name.v # "" =>
                          zombies[j][1] = disk.name.v
                    /\ Absent(disk.disk_size_gb) =>
                          zombies[j][2] = 0 /\ zombies[j][4] = 0
                    /\ Absent(disk.id) => zombies[j][3] = "Unknown"

(***************************************************************************)
(* C3, as stated: for every segment of the stripped identifier that is     *)
(* "resourceGroups" in some letter case and is followed by a segment X,    *)
(* the result is X; with no such segment, or an empty identifier, the      *)
(* result is "Unknown".                                                    *)
(***************************************************************************)
RgSegments(parts) ==
    {i \in 1..(Len(parts) - 1) : Lower(parts[i]) = "resourcegroups"}

C3_EverySegment ==
    (pc = "rg_done") =>
        LET parts == Split(Strip(rid))
        IN  /\ \A i \in RgSegments(parts) : rg_result = <<parts[i + 1]>>
            /\ RgSegments(parts) = {} => rg_result = <<"Unknown">>

(***************************************************************************)
(* C3, amended: if the "resourceGroups" segments of the stripped           *)
(* identifier that have a successor all have the same successor X, the     *)
(* result is X; with no such segment, or an empty identifier, the result   *)
(* is "Unknown".                                                           *)
(***************************************************************************)
C3_SingleGroup ==
    (pc = "rg_done") =>
        LET parts == Split(Strip(rid))
            groups == {parts[i + 1] : i \in RgSegments(parts)}
        IN  /\ \A X \in groups : groups = {X} => rg_result = <<X>>
            /\ groups = {} => rg_result = <<"Unknown">>

\* an identifier in which an upper-case RESOURCEGROUPS segment is followed
\* by RG2, with separators on both ends
C3_Witness ==
    /\ pc = "rg_done"
    /\ rid = <<"/", "subscriptions", "/", "RESOURCEGROUPS", "/", "RG2", "/">>
    /\ rg_result = <<"RG2">>

(***************************************************************************)
(* C10: the result is the successor of the leftmost "resourceGroups"       *)
(* segment (in any letter case) of the stripped identifier that has a      *)
(* successor, and "Unknown" if there is none, as when the only such        *)
(* segment is the last one.                                                *)
(***************************************************************************)
C10_LeftmostWins ==
    (pc = "rg_done") =>
        LET parts == Split(Strip(rid))
            I == RgSegments(parts)
        IN  /\ I # {} =>
                  rg_result = <<parts[(CHOOSE i \in I : \A j \in I : i <= j) + 1]>>
            /\ I = {} => rg_result = <<"Unknown">>
            /\ (rid # <<>> /\ rid[Len(rid)] = Sep /\ Len(parts) >= 1
                  /\ Lower(parts[Len(parts)]) = "resourcegroups"
                  /\ \A i \in 1..(Len(parts) - 1) :
                        Lower(parts[i]) # "resourcegroups")
               => rg_result = <<"Unknown">>

\* two "resourceGroups" segments with different successors
C10_Witness ==
    /\ pc = "rg_done"
    /\ rid = <<"resourceGroups", "/", "rg1", "/", "RESOURCEGROUPS", "/", "RG2">>
    /\ rg_result = <<"rg1">>

====
